---- MODULE Spec2Model ----
(***************************************************************************)
(* Deal generation (ActionGenerator) and contact reconciliation            *)
(* (mergeDuplicateContacts / mergeContactProperties) of the marketing      *)
(* automation engine, as state machines.                                   *)
(***************************************************************************)
EXTENDS Integers, Sequences, FiniteSets, TLC

(* ------------------------------ bounds --------------------------------- *)
\* number of events handed to generateFrom in one run
MaxEvents == 2
\* number of normalized contact records handed to mergeDuplicateContacts
MaxContacts == 2

(* --------------------------- basic values ------------------------------ *)
EVAL == "EVAL"
CLOSED_WON == "CLOSED_WON"
CLOSED_LOST == "CLOSED_LOST"
DealStage == {EVAL, CLOSED_WON, CLOSED_LOST}

\* `let dealToUse = null`: the value of "no deal"
NoDeal == 0
\* a null id (transactionId: null) and an omitted dealstage argument
NullId == "null"
Undefined == "undefined"

\* the deals the deal manager holds when a run starts (see InitDeal)
DealIds == {1, 2, 3}

(* ------------------------------ records -------------------------------- *)
\* License and Transaction records, in one shape.  kind "null" is the null
\* record (no transaction on the event; the null record of a refund update).
License(id, active, start) ==
  [kind |-> "license", addonLicenseId |-> id, transactionId |-> NullId,
   active |-> active, maintenanceStartDate |-> start]
Transaction(txid, id) ==
  [kind |-> "transaction", addonLicenseId |-> id, transactionId |-> txid,
   active |-> FALSE, maintenanceStartDate |-> 0]
NullRecord ==
  [kind |-> "null", addonLicenseId |-> NullId, transactionId |-> NullId,
   active |-> FALSE, maintenanceStartDate |-> 0]

isPresent(record) == record.kind # "null"

\* the value a record writes into the record-driven properties of a deal
RecordProps(record) ==
  IF record.kind = "transaction" THEN record.transactionId
  ELSE record.addonLicenseId

(* ------------------------------ helpers -------------------------------- *)
Range(s) == {s[i] : i \in 1..Len(s)}

RECURSIVE SortedSeq(_)
SortedSeq(S) ==
  IF S = {} THEN <<>>
  ELSE LET m == CHOOSE x \in S : \A y \in S : x <= y
       IN <<m>> \o SortedSeq(S \ {m})

\* a JS Set built by adding the elements of s in order
RECURSIVE SetOrder(_)
SetOrder(s) ==
  IF s = <<>> THEN <<>>
  ELSE LET front == SetOrder(SubSeq(s, 1, Len(s) - 1))
           last == s[Len(s)]
       IN IF last \in Range(front) THEN front ELSE Append(front, last)

RECURSIVE FlatMap(_, _)
FlatMap(F(_), s) ==
  IF s = <<>> THEN <<>> ELSE F(Head(s)) \o FlatMap(F, Tail(s))

some(s, P(_)) == \E i \in 1..Len(s) : P(s[i])

(* ------------------------------- Deal ---------------------------------- *)
EditableFields == {"dealStage", "recordProps"}

DealData(stage, addon, tx, props) ==
  [dealStage |-> stage, addonLicenseId |-> addon, transactionId |-> tx,
   recordProps |-> props]

isEval(deal) == deal.data.dealStage = EVAL

hasPropertyChanges(deal) ==
  \E f \in EditableFields : deal.data[f] # deal.snapshot[f]

getPropertyChanges(deal) ==
  [f \in {g \in EditableFields : deal.data[g] # deal.snapshot[g]} |-> deal.data[f]]

\* records.ts: editable properties are rewritten from the record; identity
\* and stage are left alone
updateDeal(deal, record) ==
  [deal EXCEPT !.data.recordProps = RecordProps(record)]

dealCreationProperties(record, data) ==
  DealData(data.dealStage, data.addonLicenseId, data.transactionId, RecordProps(record))

(* --------------------------- DealManager ------------------------------- *)
\* w is the mutable world of one run:
\*   deals, live, duplicatesToDelete   the DealManager
\*   handledDeals, log                 the ActionGenerator and the logger
\*   resolution                        what the last singleDeal call did
\*   thrown                            an exception left the handler
MatchesRecord(deal, record) ==
  \/ record.kind = "license" /\ deal.data.addonLicenseId = record.addonLicenseId
  \/ record.kind = "transaction" /\ deal.data.transactionId = record.transactionId

getDealsForRecords(w, records) ==
  LET dealsFor(record) ==
        SortedSeq({d \in w.live : MatchesRecord(w.deals[d], record)})
  IN SetOrder(FlatMap(dealsFor, records))

removeLocally(w, toDelete) ==
  [w EXCEPT !.live = w.live \ Range(toDelete)]

(* -------------------------- ActionGenerator ---------------------------- *)
NoResolution ==
  [found |-> <<>>, important |-> <<>>, deal |-> NoDeal, toDelete |-> <<>>]

\* duplicatesToDelete.get(deal) / set(deal, new Set()) / dupOf.add(dealToUse)
RECURSIVE addDuplicates(_, _, _)
addDuplicates(dups, toDelete, dealToUse) ==
  IF toDelete = <<>> THEN dups
  ELSE LET deal == Head(toDelete)
           dupOf == IF deal \in DOMAIN dups THEN dups[deal] ELSE {}
           next == [d \in (DOMAIN dups) \cup {deal} |->
                      IF d = deal THEN dupOf \cup {dealToUse} ELSE dups[d]]
       IN addDuplicates(next, Tail(toDelete), dealToUse)

\* mutant: no found deal counts as having activity
importantDealsOf_none(w, foundDeals) == << >>

\* [...foundDeals].filter(d => d.computed.hasActivity)
importantDealsOf(w, foundDeals) ==
  SelectSeq(foundDeals, LAMBDA d : w.deals[d].hasActivity)

\* mutant: every deal that is not kept is deleted, activity or not
pickDeal_deleteAllOthers(foundDeals, importantDeals) ==
  IF Len(importantDeals) = 0 THEN
    [dealToUse |-> Head(foundDeals), toDelete |-> Tail(foundDeals)]
  ELSE
    [dealToUse |-> importantDeals[1],
     toDelete |-> SelectSeq(foundDeals, LAMBDA d : d # importantDeals[1])]

\* the deal to use and the deals to delete among several found deals
pickDeal(foundDeals, importantDeals) ==
  IF Len(importantDeals) = 0 THEN
    [dealToUse |-> Head(foundDeals), toDelete |-> Tail(foundDeals)]
  ELSE
    [dealToUse |-> importantDeals[1],
     toDelete |-> SelectSeq(foundDeals, LAMBDA d : d \notin Range(importantDeals))]

\* mutant: the deals to delete stay in the live deal set
markDuplicates_noRemove(w, toDelete, dealToUse) ==
  [w EXCEPT
     !.duplicatesToDelete = addDuplicates(w.duplicatesToDelete, toDelete, dealToUse)]

\* removeLocally(toDelete), then the duplicatesToDelete entries
markDuplicates(w, toDelete, dealToUse) ==
  [removeLocally(w, toDelete) EXCEPT
     !.duplicatesToDelete = addDuplicates(w.duplicatesToDelete, toDelete, dealToUse)]

warnUndeletable(w, importantDeals) ==
  IF Len(importantDeals) > 1
  THEN [w EXCEPT !.log = Append(w.log,
          [level |-> "warn",
           message |-> "Found duplicates that can't be auto-deleted.",
           deals |-> importantDeals])]
  ELSE w

\* mutant: a single found deal is not used
singleDeal_onlyDuplicates(w, foundDeals) ==
  IF Len(foundDeals) <= 1 THEN
    [w EXCEPT !.resolution = NoResolution]
  ELSE
    LET importantDeals == importantDealsOf(w, foundDeals)
        pick == pickDeal(foundDeals, importantDeals)
        marked == markDuplicates(warnUndeletable(w, importantDeals),
                                 pick.toDelete, pick.dealToUse)
    IN [marked EXCEPT
          !.resolution = [found |-> foundDeals, important |-> importantDeals,
                          deal |-> pick.dealToUse, toDelete |-> pick.toDelete]]

singleDeal(w, foundDeals) ==
  IF Len(foundDeals) = 0 THEN
    [w EXCEPT !.resolution = NoResolution]
  ELSE IF Len(foundDeals) = 1 THEN
    [w EXCEPT !.resolution =
       [found |-> foundDeals, important |-> <<>>, deal |-> foundDeals[1],
        toDelete |-> <<>>]]
  ELSE
    LET importantDeals == importantDealsOf(w, foundDeals)
        pick == pickDeal(foundDeals, importantDeals)
        marked == markDuplicates(warnUndeletable(w, importantDeals),
                                 pick.toDelete, pick.dealToUse)
    IN [marked EXCEPT
          !.resolution = [found |-> foundDeals, important |-> importantDeals,
                          deal |-> pick.dealToUse, toDelete |-> pick.toDelete]]

\* mutant: the entry of a deal selected twice is overwritten
recordSeen_overwrites(w, deal, event) ==
  [(IF deal \in DOMAIN w.handledDeals THEN
      [w EXCEPT !.log = Append(w.log,
         [level |-> "error", message |-> "Updating deal twice",
          firstEvent |-> w.handledDeals[deal].groups,
          currentEvent |-> event.groups,
          deal |-> deal])]
    ELSE w)
   EXCEPT !.handledDeals =
     [d \in (DOMAIN w.handledDeals) \cup {deal} |->
        IF d = deal THEN event ELSE w.handledDeals[d]]]

\* mutant: a deal selected twice is an exception
recordSeen_throws(w, deal, event) ==
  IF deal \in DOMAIN w.handledDeals THEN
    [w EXCEPT !.thrown = TRUE]
  ELSE
    [w EXCEPT !.handledDeals =
       [d \in (DOMAIN w.handledDeals) \cup {deal} |->
          IF d = deal THEN event ELSE w.handledDeals[d]]]

recordSeen(w, deal, event) ==
  IF deal \in DOMAIN w.handledDeals THEN
    [w EXCEPT !.log = Append(w.log,
       [level |-> "error", message |-> "Updating deal twice",
        firstEvent |-> w.handledDeals[deal].groups,
        currentEvent |-> event.groups,
        deal |-> deal])]
  ELSE
    [w EXCEPT !.handledDeals =
       [d \in (DOMAIN w.handledDeals) \cup {deal} |->
          IF d = deal THEN event ELSE w.handledDeals[d]]]

makeCreateAction(event, record, data) ==
  [type |-> "create", groups |-> event.groups, deal |-> NoDeal,
   properties |-> dealCreationProperties(record, data)]

\* mutant: an Update is returned whether or not a property changed
makeUpdateAction_alwaysUpdate(w, event, deal, record, dealstage) ==
  LET staged == IF dealstage # Undefined
                THEN [w.deals[deal] EXCEPT !.data.dealStage = dealstage]
                ELSE w.deals[deal]
      updated == IF isPresent(record) THEN updateDeal(staged, record) ELSE staged
  IN [w |-> [w EXCEPT !.deals[deal] = updated],
      action |-> [type |-> "update", groups |-> event.groups, deal |-> deal,
                  properties |-> getPropertyChanges(updated)]]

\* returns the world after the in-place mutation of the deal, and the action
makeUpdateAction(w, event, deal, record, dealstage) ==
  LET staged == IF dealstage # Undefined
                THEN [w.deals[deal] EXCEPT !.data.dealStage = dealstage]
                ELSE w.deals[deal]
      updated == IF isPresent(record) THEN updateDeal(staged, record) ELSE staged
      w2 == [w EXCEPT !.deals[deal] = updated]
  IN IF ~hasPropertyChanges(updated)
     THEN [w |-> w2,
           action |-> [type |-> "noop", groups |-> event.groups, deal |-> deal,
                       properties |-> << >>]]
     ELSE [w |-> w2,
           action |-> [type |-> "update", groups |-> event.groups, deal |-> deal,
                       properties |-> getPropertyChanges(updated)]]

\* [...licenses].sort(sorter(maintenanceStartDate, 'DSC'))[0]: the sort is
\* stable, so the first license with the greatest date
getLatestLicense(event) ==
  LET ls == event.licenses
      i == CHOOSE i \in 1..Len(ls) :
             /\ \A j \in 1..Len(ls) : ls[j].maintenanceStartDate <= ls[i].maintenanceStartDate
             /\ \A j \in 1..(i - 1) : ls[j].maintenanceStartDate < ls[i].maintenanceStartDate
  IN ls[i]

\* mutant: only the latest license decides the stage
evalStage_latestOnly(event) ==
  IF event.licenses[Len(event.licenses)].active THEN EVAL ELSE CLOSED_LOST

evalStage(event) ==
  IF some(event.licenses, LAMBDA l : l.active) THEN EVAL ELSE CLOSED_LOST

Thrown(w) == [w |-> [w EXCEPT !.thrown = TRUE], actions |-> <<>>]

\* mutant: the stage of a matched deal is recomputed whatever its stage
actionForEval_alwaysRestage(w, event) ==
  LET w1 == singleDeal(w, getDealsForRecords(w, event.licenses))
      deal == w1.resolution.deal
      w2 == IF deal # NoDeal THEN recordSeen(w1, deal, event) ELSE w1
      latestLicense == IF Len(event.licenses) > 0
                       THEN event.licenses[Len(event.licenses)] ELSE NullRecord
  IN IF deal = NoDeal THEN
       IF Len(event.licenses) = 0 THEN Thrown(w2)
       ELSE [w |-> w2,
             actions |-> << makeCreateAction(event, latestLicense,
                              [dealStage |-> evalStage(event),
                               addonLicenseId |-> latestLicense.addonLicenseId,
                               transactionId |-> NullId]) >>]
     ELSE
       LET r == makeUpdateAction(w2, event, deal, latestLicense, evalStage(event))
       IN [w |-> r.w, actions |-> << r.action >>]

actionForEval(w, event) ==
  LET w1 == singleDeal(w, getDealsForRecords(w, event.licenses))
      deal == w1.resolution.deal
      w2 == IF deal # NoDeal THEN recordSeen(w1, deal, event) ELSE w1
      latestLicense == IF Len(event.licenses) > 0
                       THEN event.licenses[Len(event.licenses)] ELSE NullRecord
  IN IF deal = NoDeal THEN
       IF Len(event.licenses) = 0 THEN Thrown(w2)
       ELSE [w |-> w2,
             actions |-> << makeCreateAction(event, latestLicense,
                              [dealStage |-> evalStage(event),
                               addonLicenseId |-> latestLicense.addonLicenseId,
                               transactionId |-> NullId]) >>]
     ELSE IF isEval(w2.deals[deal]) THEN
       LET r == makeUpdateAction(w2, event, deal, latestLicense, evalStage(event))
       IN [w |-> r.w, actions |-> << r.action >>]
     ELSE
       LET r == makeUpdateAction(w2, event, deal, latestLicense, Undefined)
       IN [w |-> r.w, actions |-> << r.action >>]

\* mutant: every purchase closes the deal as won
purchaseStage_alwaysWon(deal) == CLOSED_WON

\* deal.isEval() ? DealStage.CLOSED_WON : deal.data.dealStage
purchaseStage(deal) ==
  IF isEval(deal) THEN CLOSED_WON ELSE deal.data.dealStage

actionForPurchase(w, event) ==
  LET recordsToSearch == SelectSeq(<<event.transaction>> \o event.licenses, isPresent)
      w1 == singleDeal(w, getDealsForRecords(w, recordsToSearch))
      deal == w1.resolution.deal
      w2 == IF deal # NoDeal THEN recordSeen(w1, deal, event) ELSE w1
  IN IF deal # NoDeal THEN
       LET license == IF isPresent(event.transaction) THEN event.transaction
                      ELSE IF Len(event.licenses) > 0 THEN getLatestLicense(event)
                      ELSE NullRecord
           dealStage == purchaseStage(w2.deals[deal])
           r == makeUpdateAction(w2, event, deal, license, dealStage)
       IN [w |-> r.w, actions |-> << r.action >>]
     ELSE IF isPresent(event.transaction) THEN
       [w |-> w2,
        actions |-> << makeCreateAction(event, event.transaction,
                         [dealStage |-> CLOSED_WON,
                          addonLicenseId |-> event.transaction.addonLicenseId,
                          transactionId |-> event.transaction.transactionId]) >>]
     ELSE IF Len(event.licenses) = 0 THEN Thrown(w2)
     ELSE
       LET license == getLatestLicense(event)
       IN [w |-> w2,
           actions |-> << makeCreateAction(event, license,
                            [dealStage |-> CLOSED_WON,
                             addonLicenseId |-> license.addonLicenseId,
                             transactionId |-> NullId]) >>]

\* mutant: a renewal closes a matched EVAL deal as won, as a purchase does
actionForRenewal_closesWon(w, event) ==
  LET w1 == singleDeal(w, getDealsForRecords(w, <<event.transaction>>))
      deal == w1.resolution.deal
      w2 == IF deal # NoDeal THEN recordSeen(w1, deal, event) ELSE w1
  IN IF deal # NoDeal THEN
       LET r == makeUpdateAction(w2, event, deal, event.transaction,
                                 purchaseStage(w2.deals[deal]))
       IN [w |-> r.w, actions |-> << r.action >>]
     ELSE
       [w |-> w2,
        actions |-> << makeCreateAction(event, event.transaction,
                         [dealStage |-> CLOSED_WON,
                          addonLicenseId |-> event.transaction.addonLicenseId,
                          transactionId |-> event.transaction.transactionId]) >>]

actionForRenewal(w, event) ==
  LET w1 == singleDeal(w, getDealsForRecords(w, <<event.transaction>>))
      deal == w1.resolution.deal
      w2 == IF deal # NoDeal THEN recordSeen(w1, deal, event) ELSE w1
  IN IF deal # NoDeal THEN
       LET r == makeUpdateAction(w2, event, deal, event.transaction, Undefined)
       IN [w |-> r.w, actions |-> << r.action >>]
     ELSE
       [w |-> w2,
        actions |-> << makeCreateAction(event, event.transaction,
                         [dealStage |-> CLOSED_WON,
                          addonLicenseId |-> event.transaction.addonLicenseId,
                          transactionId |-> event.transaction.transactionId]) >>]

RECURSIVE recordSeenAll(_, _, _)
recordSeenAll(w, deals, event) ==
  IF deals = <<>> THEN w
  ELSE recordSeenAll(recordSeen(w, Head(deals), event), Tail(deals), event)

\* mutant: a refund sends the deals back to EVAL
RECURSIVE refundUpdates_reopens(_, _, _)
refundUpdates_reopens(w, deals, event) ==
  IF deals = <<>> THEN [w |-> w, actions |-> <<>>]
  ELSE LET r == makeUpdateAction(w, event, Head(deals), NullRecord, EVAL)
           rest == refundUpdates_reopens(r.w, Tail(deals), event)
       IN [w |-> rest.w, actions |-> <<r.action>> \o rest.actions]

\* .map(deal => makeUpdateAction(event, deal, null, CLOSED_LOST)) over the
\* deals the filter kept
RECURSIVE refundUpdates(_, _, _)
refundUpdates(w, deals, event) ==
  IF deals = <<>> THEN [w |-> w, actions |-> <<>>]
  ELSE LET r == makeUpdateAction(w, event, Head(deals), NullRecord, CLOSED_LOST)
           rest == refundUpdates(r.w, Tail(deals), event)
       IN [w |-> rest.w, actions |-> <<r.action>> \o rest.actions]

\* mutant: the CLOSED_LOST filter is missing
refundFilter_none(w, deals) == deals

\* .filter(deal => deal.data.dealStage !== DealStage.CLOSED_LOST)
refundFilter(w, deals) ==
  SelectSeq(deals, LAMBDA d : w.deals[d].data.dealStage # CLOSED_LOST)

\* mutant: a refund resolves the duplicates among the deals it finds
actionsForRefund_resolves(w, event) ==
  LET deals == getDealsForRecords(w, event.refundedTxs)
      w1 == recordSeenAll(singleDeal(w, deals), deals, event)
  IN refundUpdates(w1, refundFilter(w1, deals), event)

actionsForRefund(w, event) ==
  LET deals == getDealsForRecords(w, event.refundedTxs)
      w1 == recordSeenAll([w EXCEPT !.resolution = NoResolution], deals, event)
  IN refundUpdates(w1, refundFilter(w1, deals), event)

actionsFor(w, event) ==
  CASE event.type = "eval" -> actionForEval(w, event)
    [] event.type = "purchase" -> actionForPurchase(w, event)
    [] event.type = "renewal" -> actionForRenewal(w, event)
    [] event.type = "upgrade" -> actionForRenewal(w, event)
    [] event.type = "refund" -> actionsForRefund(w, event)

(* ------------------------------ inputs --------------------------------- *)
L1a == License("L1", TRUE, 1)
L1i == License("L1", FALSE, 1)
L2a == License("L2", TRUE, 2)
L3a == License("L3", TRUE, 3)
L3i == License("L3", FALSE, 3)
L4i == License("L4", FALSE, 4)
T1 == Transaction("T1", "L1")
T2 == Transaction("T2", "L2")

Event(type, licenses, transaction, refundedTxs) ==
  [type |-> type, licenses |-> licenses, transaction |-> transaction,
   refundedTxs |-> refundedTxs, groups |-> NoDeal]

EvalEvents ==
  {Event("eval", ls, NullRecord, <<>>) :
     ls \in {<<L1i>>, <<L1i, L2a>>, <<L3a, L4i>>, <<L3i>>}}
PurchaseEvents ==
  {Event("purchase", <<L1a>>, T1, <<>>),
   Event("purchase", <<L2a, L1a>>, NullRecord, <<>>),
   Event("purchase", <<L3a>>, T2, <<>>)}
RenewalEvents == {Event("renewal", <<>>, t, <<>>) : t \in {T1, T2}}
UpgradeEvents == {Event("upgrade", <<>>, t, <<>>) : t \in {T1, T2}}
RefundEvents ==
  {Event("refund", <<>>, NullRecord, txs) : txs \in {<<T1, T2>>}}

\* the deals downloaded at the start of a run: deal 1 has license L1 and no
\* transaction, deal 2 has L1 and T1, deal 3 has L2 and T1
InitAddonLicenseId(d) == IF d = 3 THEN "L2" ELSE "L1"
InitTransactionId(d) == IF d = 1 THEN NullId ELSE "T1"
InitDeal(d, stage, activity) ==
  LET data == DealData(stage, InitAddonLicenseId(d), InitTransactionId(d),
                       IF d = 1 THEN "L1" ELSE InitTransactionId(d))
  IN [data |-> data, snapshot |-> data, hasActivity |-> activity]

(* ----------------------------- contacts ------------------------------- *)
\* a TmpContact; a null field is NullId
TmpContact(email, type, updated, profile) ==
  [email |-> email, contact_type |-> type, updated |-> updated,
   firstname |-> profile.firstname, lastname |-> profile.lastname,
   phone |-> profile.phone, city |-> profile.city, state |-> profile.state]

truthy(value) == value # NullId

\* index of the first element of contacts that satisfies P, 0 if none
find(contacts, P(_)) ==
  IF \E i \in 1..Len(contacts) : P(contacts[i])
  THEN CHOOSE i \in 1..Len(contacts) :
         P(contacts[i]) /\ \A j \in 1..(i - 1) : ~P(contacts[j])
  ELSE 0

\* contacts.sort(sorter(c => c.updated, 'DSC')): Array.sort is stable
RECURSIVE sortByUpdatedDSC(_)
sortByUpdatedDSC(contacts) ==
  IF contacts = <<>> THEN <<>>
  ELSE LET i == CHOOSE i \in 1..Len(contacts) :
                  /\ \A j \in 1..Len(contacts) : contacts[j].updated <= contacts[i].updated
                  /\ \A j \in 1..(i - 1) : contacts[j].updated < contacts[i].updated
           rest == [k \in 1..(Len(contacts) - 1) |->
                      IF k < i THEN contacts[k] ELSE contacts[k + 1]]
       IN <<contacts[i]>> \o sortByUpdatedDSC(rest)

\* mutant: the most recent record keeps its own contact type
escalateType_never(contacts) == contacts

\* if (ideal.contact_type === 'Customer' && contacts.some(Partner)) ideal = Partner
escalateType(contacts) ==
  IF contacts[1].contact_type = "Customer"
       /\ \E i \in 1..Len(contacts) : contacts[i].contact_type = "Partner"
  THEN [contacts EXCEPT ![1].contact_type = "Partner"]
  ELSE contacts

\* mutant: the two names are always taken independently of each other
mergeNames_independent(contacts) ==
  LET hasFirstName == find(contacts, LAMBDA c : truthy(c.firstname))
      first == IF hasFirstName # 0
               THEN [contacts EXCEPT ![1].firstname = contacts[hasFirstName].firstname]
               ELSE contacts
      hasLastName == find(contacts, LAMBDA c : truthy(c.lastname))
  IN IF hasLastName # 0
     THEN [first EXCEPT ![1].lastname = contacts[hasLastName].lastname]
     ELSE first

mergeNames(contacts) ==
  LET hasName == find(contacts, LAMBDA c : truthy(c.firstname) /\ truthy(c.lastname))
      hasFirstName == find(contacts, LAMBDA c : truthy(c.firstname))
      first == IF hasFirstName # 0
               THEN [contacts EXCEPT ![1].firstname = contacts[hasFirstName].firstname]
               ELSE contacts
      hasLastName == find(first, LAMBDA c : truthy(c.lastname))
  IN IF hasName # 0
     THEN [contacts EXCEPT ![1].firstname = contacts[hasName].firstname,
                           ![1].lastname = contacts[hasName].lastname]
     ELSE IF hasLastName # 0
          THEN [first EXCEPT ![1].lastname = first[hasLastName].lastname]
          ELSE first

mergePhone(contacts) ==
  LET hasPhone == find(contacts, LAMBDA c : truthy(c.phone))
  IN IF hasPhone # 0
     THEN [contacts EXCEPT ![1].phone = contacts[hasPhone].phone]
     ELSE contacts

mergeAddress(contacts) ==
  LET hasAddress == find(contacts, LAMBDA c : truthy(c.city) /\ truthy(c.state))
      hasCity == find(contacts, LAMBDA c : truthy(c.city))
      city == IF hasCity # 0
              THEN [contacts EXCEPT ![1].city = contacts[hasCity].city]
              ELSE contacts
      hasState == find(city, LAMBDA c : truthy(c.state))
  IN IF hasAddress # 0
     THEN [contacts EXCEPT ![1].city = contacts[hasAddress].city,
                           ![1].state = contacts[hasAddress].state]
     ELSE IF hasState # 0
          THEN [city EXCEPT ![1].state = city[hasState].state]
          ELSE city

\* the contacts array after the call: sorted, its first element the survivor
mergeContactProperties(primaryEmail, contacts) ==
  LET sorted == sortByUpdatedDSC(contacts)
      ideal == [sorted EXCEPT ![1].email = primaryEmail]
  IN mergeAddress(mergePhone(mergeNames(escalateType(ideal))))

\* the Map of the groups, in insertion order
mapHas(groups, email) == \E i \in 1..Len(groups) : groups[i].key = email
mapIndex(groups, email) == CHOOSE i \in 1..Len(groups) : groups[i].key = email
mapDelete(groups, email) == SelectSeq(groups, LAMBDA g : g.key # email)

RECURSIVE groupByEmail(_, _)
groupByEmail(groups, contacts) ==
  IF contacts = <<>> THEN groups
  ELSE LET contact == Head(contacts)
           added == IF mapHas(groups, contact.email) THEN groups
                    ELSE Append(groups, [key |-> contact.email, contacts |-> <<>>])
           i == mapIndex(added, contact.email)
       IN groupByEmail([added EXCEPT ![i].contacts = Append(@, contact)],
                       Tail(contacts))

\* mutant: the group of an alias is copied into the primary's and kept
RECURSIVE foldOthers_keepAlias(_, _, _)
foldOthers_keepAlias(groups, email, otherEmails) ==
  IF otherEmails = <<>> THEN groups
  ELSE LET other == Head(otherEmails)
       IN IF mapHas(groups, other)
          THEN LET otherSet == groups[mapIndex(groups, other)].contacts
                   p == mapIndex(groups, email)
               IN foldOthers_keepAlias([groups EXCEPT ![p].contacts = @ \o otherSet],
                                       email, Tail(otherEmails))
          ELSE foldOthers_keepAlias(groups, email, Tail(otherEmails))

\* for (const other of otherEmails): move the group of other into the primary's
RECURSIVE foldOthers(_, _, _)
foldOthers(groups, email, otherEmails) ==
  IF otherEmails = <<>> THEN groups
  ELSE LET other == Head(otherEmails)
       IN IF mapHas(groups, other)
          THEN LET otherSet == groups[mapIndex(groups, other)].contacts
                   deleted == mapDelete(groups, other)
                   p == mapIndex(deleted, email)
               IN foldOthers([deleted EXCEPT ![p].contacts = @ \o otherSet],
                             email, Tail(otherEmails))
          ELSE foldOthers(groups, email, Tail(otherEmails))

\* mutant: an initial contact whose primary email has no group is skipped
RECURSIVE foldAliases_noAssert(_, _)
foldAliases_noAssert(groups, initial) ==
  IF initial = <<>> THEN [groups |-> groups, failed |-> FALSE]
  ELSE LET email == Head(initial).email
           otherEmails == Head(initial).otherEmails
       IN IF Len(otherEmails) > 0 /\ mapHas(groups, email)
          THEN foldAliases_noAssert(foldOthers(groups, email, otherEmails),
                                    Tail(initial))
          ELSE foldAliases_noAssert(groups, Tail(initial))

\* the loop over initialContacts; failed is the AssertionError of line 124
RECURSIVE foldAliases(_, _)
foldAliases(groups, initial) ==
  IF initial = <<>> THEN [groups |-> groups, failed |-> FALSE]
  ELSE LET email == Head(initial).email
           otherEmails == Head(initial).otherEmails
       IN IF Len(otherEmails) = 0 THEN foldAliases(groups, Tail(initial))
          ELSE IF mapHas(groups, email)
          THEN foldAliases(foldOthers(groups, email, otherEmails), Tail(initial))
          ELSE IF \A i \in 1..Len(otherEmails) : ~mapHas(groups, otherEmails[i])
          THEN foldAliases(groups, Tail(initial))
          ELSE [groups |-> groups, failed |-> TRUE]

\* ([{ updated, ...cs }]) => cs
dropUpdated(c) ==
  [email |-> c.email, contact_type |-> c.contact_type,
   firstname |-> c.firstname, lastname |-> c.lastname,
   phone |-> c.phone, city |-> c.city, state |-> c.state]

(* -------------------------- contact inputs ----------------------------- *)
Emails == {"a@x.com", "b@x.com", "c@x.com"}
\* values of updated (lastUpdated / saleDate), as ordered dates
Updates == {1, 2}
Profiles ==
  {[firstname |-> "Jo", lastname |-> NullId, phone |-> NullId,
    city |-> "Rome", state |-> NullId],
   [firstname |-> NullId, lastname |-> "Smith", phone |-> "555",
    city |-> NullId, state |-> "NY"],
   [firstname |-> "Al", lastname |-> "Lee", phone |-> "777",
    city |-> "Oslo", state |-> "TX"]}
ContactPool ==
  {TmpContact(email, type, updated, profile) :
     email \in Emails, type \in {"Customer", "Partner"},
     updated \in Updates, profile \in Profiles}
InitialContactLists ==
  {<< >>,
   << [email |-> "a@x.com", otherEmails |-> << "b@x.com" >>] >>,
   << [email |-> "b@x.com", otherEmails |-> << "a@x.com" >>] >>,
   << [email |-> "a@x.com", otherEmails |-> << "b@x.com", "c@x.com" >>] >>,
   << [email |-> "c@x.com", otherEmails |-> << >>],
      [email |-> "a@x.com", otherEmails |-> << "b@x.com" >>] >>}

(* ------------------------------- state --------------------------------- *)
VARIABLES deals, live, duplicatesToDelete, handledDeals, log, resolution,
          thrown, events, actions, pc

\* repeated runs of the engine: the number of the run, and the events of the
\* run before it
VARIABLES run, previous

\* generateContacts: the normalized records, the initial contacts, the Map of
\* mergeDuplicateContacts, the index of its merge loop, the returned list
VARIABLES allContacts, initialContacts, groups, cidx, finalContacts, cpc

dealVars == <<deals, live, duplicatesToDelete, handledDeals, log, resolution,
              thrown, events, actions, pc, run, previous>>
contactVars == <<allContacts, initialContacts, groups, cidx, finalContacts, cpc>>
vars == <<dealVars, contactVars>>

NoContacts ==
  /\ allContacts = << >>
  /\ initialContacts = << >>
  /\ groups = << >>
  /\ cidx = 0
  /\ finalContacts = << >>
  /\ cpc = "idle"

World ==
  [deals |-> deals, live |-> live, duplicatesToDelete |-> duplicatesToDelete,
   handledDeals |-> handledDeals, log |-> log, resolution |-> resolution,
   thrown |-> thrown]

Init ==
  /\ \E stage \in [DealIds -> DealStage], activity \in [DealIds -> BOOLEAN] :
       deals = [d \in DealIds |-> InitDeal(d, stage[d], activity[d])]
  /\ live = DealIds
  /\ duplicatesToDelete = << >>
  /\ handledDeals = << >>
  /\ log = << >>
  /\ resolution = NoResolution
  /\ thrown = FALSE
  /\ events = << >>
  /\ actions = << >>
  /\ pc = "running"
  /\ run = 1
  /\ previous = << >>
  /\ NoContacts

\* mutant: each event's actions are put in front of the earlier ones
Step_prepend(e) ==
  /\ pc = "running"
  /\ Len(events) < MaxEvents
  /\ \E r \in {actionsFor(World, [e EXCEPT !.groups = Len(events) + 1])} :
        /\ deals' = r.w.deals
        /\ live' = r.w.live
        /\ duplicatesToDelete' = r.w.duplicatesToDelete
        /\ handledDeals' = r.w.handledDeals
        /\ log' = r.w.log
        /\ resolution' = r.w.resolution
        /\ thrown' = r.w.thrown
        /\ events' = Append(events, [e EXCEPT !.groups = Len(events) + 1])
        /\ actions' = r.actions \o actions
        /\ pc' = IF r.w.thrown THEN "thrown" ELSE "running"
  /\ UNCHANGED <<run, previous, contactVars>>

\* one iteration of events.flatMap(event => this.actionsFor(event)); actions
\* is the list generateFrom returns when the input ends here
Step(e) ==
  /\ pc = "running"
  /\ Len(events) < MaxEvents
  /\ \E r \in {actionsFor(World, [e EXCEPT !.groups = Len(events) + 1])} :
        /\ deals' = r.w.deals
        /\ live' = r.w.live
        /\ duplicatesToDelete' = r.w.duplicatesToDelete
        /\ handledDeals' = r.w.handledDeals
        /\ log' = r.w.log
        /\ resolution' = r.w.resolution
        /\ thrown' = r.w.thrown
        /\ events' = Append(events, [e EXCEPT !.groups = Len(events) + 1])
        /\ actions' = actions \o r.actions
        /\ pc' = IF r.w.thrown THEN "thrown" ELSE "running"
  /\ UNCHANGED <<run, previous, contactVars>>

HandleEval == \E e \in EvalEvents : Step(e)
HandlePurchase == \E e \in PurchaseEvents : Step(e)
HandleRenewal == \E e \in RenewalEvents : Step(e)
HandleUpgrade == \E e \in UpgradeEvents : Step(e)
HandleRefund == \E e \in RefundEvents : Step(e)

Next ==
  \/ HandleEval
  \/ HandlePurchase
  \/ HandleRenewal
  \/ HandleUpgrade
  \/ HandleRefund

Spec == Init /\ [][Next]_vars

(* --------------------------- repeated runs ----------------------------- *)
\* the deals the Create actions of a run add to the CRM
Creates == SelectSeq(actions, LAMBDA a : a.type = "create")
CreatedIds == {Cardinality(DOMAIN deals) + i : i \in 1..Len(Creates)}

\* the end of a run and the start of the next: the actions are applied (every
\* Create adds a deal, every change is uploaded, so each snapshot equals the
\* deal's properties; the deleted duplicates are gone) and a new generator and
\* deal manager start on the result
Sync ==
  /\ pc = "running"
  /\ run = 1
  /\ events # << >>
  /\ \E activity \in [CreatedIds -> BOOLEAN] :
       deals' = [d \in (DOMAIN deals) \cup CreatedIds |->
                   IF d \in DOMAIN deals
                   THEN [deals[d] EXCEPT !.snapshot = deals[d].data]
                   ELSE LET properties ==
                              Creates[d - Cardinality(DOMAIN deals)].properties
                        IN [data |-> properties, snapshot |-> properties,
                            hasActivity |-> activity[d]]]
  /\ live' = live \cup CreatedIds
  /\ duplicatesToDelete' = << >>
  /\ handledDeals' = << >>
  /\ log' = << >>
  /\ resolution' = NoResolution
  /\ events' = << >>
  /\ actions' = << >>
  /\ previous' = events
  /\ run' = 2
  /\ UNCHANGED <<thrown, pc, contactVars>>

\* the first run takes any events, the second the events of the first
FirstRun ==
  /\ run = 1
  /\ \E e \in EvalEvents \cup PurchaseEvents \cup RenewalEvents
               \cup UpgradeEvents \cup RefundEvents : Step(e)

SecondRun ==
  /\ run = 2
  /\ Len(events) < Len(previous)
  /\ Step(previous[Len(events) + 1])

NextRerun ==
  \/ FirstRun
  \/ Sync
  \/ SecondRun

SpecRerun == Init /\ [][NextRerun]_vars

(* ------------------------- generateContacts ---------------------------- *)
RECURSIVE ContactLists(_)
ContactLists(n) ==
  IF n = 0 THEN {<< >>}
  ELSE LET shorter == ContactLists(n - 1)
       IN shorter \cup {Append(l, c) : l \in {x \in shorter : Len(x) = n - 1},
                                      c \in ContactPool}

InitContacts ==
  /\ deals = << >>
  /\ live = {}
  /\ duplicatesToDelete = << >>
  /\ handledDeals = << >>
  /\ log = << >>
  /\ resolution = NoResolution
  /\ thrown = FALSE
  /\ events = << >>
  /\ actions = << >>
  /\ pc = "idle"
  /\ run = 1
  /\ previous = << >>
  /\ allContacts \in ContactLists(MaxContacts)
  /\ initialContacts \in InitialContactLists
  /\ groups = << >>
  /\ cidx = 0
  /\ finalContacts = << >>
  /\ cpc = "group"

\* the first loop of mergeDuplicateContacts
GroupContacts ==
  /\ cpc = "group"
  /\ groups' = groupByEmail(<< >>, allContacts)
  /\ cpc' = "fold"
  /\ UNCHANGED <<allContacts, initialContacts, cidx, finalContacts, dealVars>>

\* the loop over initialContacts
FoldAliases ==
  /\ cpc = "fold"
  /\ \E r \in {foldAliases(groups, initialContacts)} :
        /\ groups' = r.groups
        /\ cpc' = IF r.failed THEN "failed" ELSE "merge"
  /\ cidx' = 1
  /\ UNCHANGED <<allContacts, initialContacts, finalContacts, dealVars>>

\* one iteration of the loop over the Map
MergeGroup ==
  /\ cpc = "merge"
  /\ cidx <= Len(groups)
  /\ groups' = IF Len(groups[cidx].contacts) > 1
                THEN [groups EXCEPT ![cidx].contacts =
                        mergeContactProperties(groups[cidx].key, @)]
                ELSE groups
  /\ cidx' = cidx + 1
  /\ UNCHANGED <<allContacts, initialContacts, finalContacts, cpc, dealVars>>

\* the return of mergeDuplicateContacts and of generateContacts
ReturnContacts ==
  /\ cpc = "merge"
  /\ cidx > Len(groups)
  /\ finalContacts' = [i \in 1..Len(groups) |-> dropUpdated(groups[i].contacts[1])]
  /\ cpc' = "done"
  /\ UNCHANGED <<allContacts, initialContacts, groups, cidx, dealVars>>

NextContacts ==
  \/ GroupContacts
  \/ FoldAliases
  \/ MergeGroup
  \/ ReturnContacts

SpecContacts == InitContacts /\ [][NextContacts]_vars

(* ----------------------------- properties ------------------------------ *)
\* in a step: the event just processed and the actions it contributed
Stepped == Len(events') = Len(events) + 1
CurrentEvent == events'[Len(events')]
NewActions == SubSeq(actions', Len(actions) + 1, Len(actions'))
LastEvent == events[Len(events)]
LastAction == actions[Len(actions)]
StageOf(d) == deals[d].data.dealStage

\* C1: an eval event whose licenses match no live deal yields exactly one
\* action, a Create, with stage EVAL iff some license of the event is active
\* and CLOSED_LOST otherwise, a null transaction id, and no deal removed or
\* marked as duplicate.
C1_EvalNoMatchCreates ==
  [][(Stepped /\ CurrentEvent.type = "eval"
        /\ getDealsForRecords(World, CurrentEvent.licenses) = <<>>)
     => /\ Len(NewActions) = 1
        /\ NewActions[1].type = "create"
        /\ (NewActions[1].properties.dealStage = EVAL
              <=> \E i \in 1..Len(CurrentEvent.licenses) : CurrentEvent.licenses[i].active)
        /\ NewActions[1].properties.dealStage \in {EVAL, CLOSED_LOST}
        /\ NewActions[1].properties.transactionId = NullId
        /\ live' = live
        /\ duplicatesToDelete' = duplicatesToDelete]_vars

\* an eval event with an active and a later inactive license created an EVAL deal
C1_Witness ==
  /\ Len(events) = 2
  /\ LastEvent.type = "eval"
  /\ LastEvent.licenses = <<L3a, L4i>>
  /\ actions # <<>>
  /\ LastAction.type = "create"
  /\ LastAction.groups = 2
  /\ LastAction.properties.dealStage = EVAL

\* C2: a purchase event that selects a deal leaves it in CLOSED_WON if it was
\* in EVAL when the event was processed, and in its previous stage otherwise.
C2_PurchaseStage ==
  [][(Stepped /\ CurrentEvent.type = "purchase" /\ NewActions[1].type # "create")
     => LET d == NewActions[1].deal
        IN deals'[d].data.dealStage =
             (IF StageOf(d) = EVAL THEN CLOSED_WON ELSE StageOf(d))]_vars

\* a purchase after an earlier event moved an EVAL deal to CLOSED_WON
C2_Witness ==
  /\ Len(events) = 2
  /\ LastEvent.type = "purchase"
  /\ LastAction.groups = 2
  /\ LastAction.type = "update"
  /\ "dealStage" \in DOMAIN LastAction.properties
  /\ LastAction.properties.dealStage = CLOSED_WON
  /\ deals[LastAction.deal].snapshot.dealStage = EVAL

\* C3: for a refund event, a matched deal already in CLOSED_LOST yields no
\* action and every other matched deal yields exactly one action, an Update
\* that sets the stage to CLOSED_LOST.
C3_RefundActions ==
  [][(Stepped /\ CurrentEvent.type = "refund")
     => \A d \in Range(getDealsForRecords(World, CurrentEvent.refundedTxs)) :
          LET mine == {i \in 1..Len(NewActions) : NewActions[i].deal = d}
          IN IF StageOf(d) = CLOSED_LOST
             THEN mine = {}
             ELSE /\ Cardinality(mine) = 1
                  /\ \A i \in mine :
                       /\ NewActions[i].type = "update"
                       /\ "dealStage" \in DOMAIN NewActions[i].properties
                       /\ NewActions[i].properties.dealStage = CLOSED_LOST
                  /\ deals'[d].data.dealStage = CLOSED_LOST]_vars

\* a refund after a purchase: the deal the purchase moved to CLOSED_WON is
\* updated to CLOSED_LOST, while another matched deal was CLOSED_LOST already
C3_Witness ==
  /\ Len(events) = 2
  /\ events[1].type = "purchase"
  /\ LastEvent.type = "refund"
  /\ Len(actions) = 2
  /\ actions[1].type = "update"
  /\ actions[2].type = "update"
  /\ actions[1].deal = actions[2].deal
  /\ actions[2].properties.dealStage = CLOSED_LOST
  /\ \E d \in live : d # actions[2].deal /\ deals[d].data.transactionId = "T1"

\* C4: the returned list is the concatenation of the per-event lists in event
\* order; eval, purchase, renewal and upgrade events contribute exactly one
\* action each, a refund event at most one per matched deal.
C4_ActionsInEventOrder ==
  /\ \A i, j \in 1..Len(actions) : i < j => actions[i].groups <= actions[j].groups
  /\ \A i \in 1..Len(actions) : actions[i].groups \in 1..Len(events)
  /\ \A k \in 1..Len(events) :
       LET mine == {i \in 1..Len(actions) : actions[i].groups = k}
       IN IF events[k].type # "refund"
          THEN Cardinality(mine) = 1
          ELSE /\ \A i, j \in mine : actions[i].deal = actions[j].deal => i = j
               /\ \A i \in mine :
                    \E t \in 1..Len(events[k].refundedTxs) :
                      deals[actions[i].deal].data.transactionId
                        = events[k].refundedTxs[t].transactionId

\* a refund that contributed two actions, followed by an event with one
C4_Witness ==
  /\ Len(events) = 2
  /\ events[1].type = "refund"
  /\ Len(actions) = 3
  /\ actions[1].groups = 1
  /\ actions[2].groups = 1
  /\ actions[3].groups = 2

\* the found deals of the resolution of this step that have activity, in order
ActiveFound == SelectSeq(resolution'.found, LAMBDA d : deals[d].hasActivity)
OthersFound == Range(resolution'.found) \ {resolution'.deal}

\* C5 as claimed: when more than one matched deal has activity, the first deal
\* with activity is kept and every other matched deal is removed from the live
\* set and entered in duplicatesToDelete.
C5_AllOthersDeleted ==
  [][(Stepped /\ Len(ActiveFound) > 1)
     => /\ resolution'.deal = ActiveFound[1]
        /\ \A d \in OthersFound :
             d \notin live' /\ d \in DOMAIN duplicatesToDelete']_vars

\* C5 as amended: when more than one matched deal has activity, the first deal
\* with activity is kept, every matched deal without activity is removed from
\* the live set and entered in duplicatesToDelete, and the other matched deals
\* with activity stay in the live set and are not entered.
C5_OnlyInactiveDeleted ==
  [][(Stepped /\ Len(ActiveFound) > 1)
     => /\ resolution'.deal = ActiveFound[1]
        /\ \A d \in OthersFound :
             IF deals[d].hasActivity
             THEN /\ d \in live'
                  /\ d \notin DOMAIN duplicatesToDelete'
             ELSE /\ d \notin live'
                  /\ d \in DOMAIN duplicatesToDelete'
                  /\ resolution'.deal \in duplicatesToDelete'[d]]_vars

\* three deals found, two with activity: one kept, one left alone, one deleted
C5_Witness ==
  /\ Len(resolution.found) = 3
  /\ Len(resolution.important) = 2
  /\ Len(resolution.toDelete) = 1
  /\ resolution.important[2] \in live
  /\ resolution.toDelete[1] \in DOMAIN duplicatesToDelete

\* C6: a deal marked for deletion leaves the live deal set in the same step
\* and gets a duplicatesToDelete entry holding the deal kept in that step; no
\* key and no kept deal is ever removed from duplicatesToDelete.
C6_DuplicatesAccumulate ==
  [][/\ \A d \in DOMAIN duplicatesToDelete :
          /\ d \in DOMAIN duplicatesToDelete'
          /\ duplicatesToDelete[d] \subseteq duplicatesToDelete'[d]
     /\ \A d \in DOMAIN duplicatesToDelete' :
          (d \notin DOMAIN duplicatesToDelete
             \/ duplicatesToDelete'[d] # duplicatesToDelete[d])
          => /\ d \in live
             /\ d \notin live'
             /\ resolution'.deal # NoDeal
             /\ resolution'.deal \in duplicatesToDelete'[d]
             /\ resolution'.deal \in live'
     /\ \A d \in live \ live' : d \in DOMAIN duplicatesToDelete']_vars

\* two events each deleted a duplicate, in favour of different kept deals
C6_Witness ==
  /\ Len(events) = 2
  /\ Cardinality(DOMAIN duplicatesToDelete) = 2
  /\ \E d1, d2 \in DOMAIN duplicatesToDelete :
       /\ duplicatesToDelete[d1] # duplicatesToDelete[d2]
       /\ d1 \in duplicatesToDelete[d2]
  /\ (DOMAIN duplicatesToDelete) \cap live = {}

\* C7: resolving the set {d} of a deal d that a resolution kept returns d,
\* removes nothing from the live set and adds nothing to duplicatesToDelete.
C7_ResolutionIdempotent ==
  resolution.deal # NoDeal
    => LET again == singleDeal(World, <<resolution.deal>>)
       IN /\ again.resolution.deal = resolution.deal
          /\ again.live = live
          /\ again.duplicatesToDelete = duplicatesToDelete
          /\ again.resolution.toDelete = <<>>

\* a resolution kept one of three deals and deleted the other two
C7_Witness ==
  /\ Len(resolution.found) = 3
  /\ Len(resolution.toDelete) = 2
  /\ resolution.deal \in live
  /\ Cardinality(DOMAIN duplicatesToDelete) = 2

\* C9: duplicate deals, several duplicates with activity and a deal selected
\* twice raise no error, and the action list covers every event: each eval,
\* purchase, renewal and upgrade event has its action, each refund event an
\* action for every matched deal it had to close.
C9_NeverAborts ==
  /\ thrown = FALSE
  /\ pc = "running"
  /\ \A k \in 1..Len(events) :
       IF events[k].type # "refund"
       THEN \E i \in 1..Len(actions) : actions[i].groups = k
       ELSE \A d \in live :
              (/\ \E t \in 1..Len(events[k].refundedTxs) :
                    deals[d].data.transactionId = events[k].refundedTxs[t].transactionId
               /\ deals[d].snapshot.dealStage # CLOSED_LOST)
              => \E i \in 1..Len(actions) : actions[i].deal = d /\ actions[i].groups <= k

\* a run that met duplicates with activity, deleted a duplicate and selected a
\* deal twice, and still has an action for each of its events
C9_Witness ==
  /\ Len(events) = 2
  /\ \E i \in 1..Len(log) : log[i].level = "warn"
  /\ \E i \in 1..Len(log) : log[i].level = "error"
  /\ duplicatesToDelete # << >>
  /\ \E i \in 1..Len(actions) : actions[i].groups = 1
  /\ \E i \in 1..Len(actions) : actions[i].groups = 2

\* in a MergeGroup step: the group before the merge and the surviving record
MergedGroup == groups[cidx].contacts
Survivor == groups'[cidx].contacts[1]
Merging == cpc = "merge" /\ cidx' = cidx + 1 /\ Len(MergedGroup) > 1

\* C10: the surviving record of a merged group has contact_type Partner iff
\* some record of the group is Partner, whichever record is the most recent.
C10_PartnerEscalates ==
  [][Merging
     => (Survivor.contact_type = "Partner"
           <=> \E i \in 1..Len(MergedGroup) : MergedGroup[i].contact_type = "Partner")]_vars

\* a merged group whose most recent record was a Customer and whose older
\* record was a Partner: the survivor is the recent record, as a Partner
C10_Witness ==
  /\ cpc = "done"
  /\ Len(allContacts) = 2
  /\ allContacts[1].contact_type = "Partner"
  /\ allContacts[2].contact_type = "Customer"
  /\ allContacts[1].updated < allContacts[2].updated
  /\ allContacts[1].email = allContacts[2].email
  /\ Len(finalContacts) = 1
  /\ finalContacts[1].contact_type = "Partner"
  /\ finalContacts[1].lastname = allContacts[2].lastname

\* C8: in a second run over the same events, after the actions of the first
\* run were applied and every snapshot equals the deal's properties, no action
\* is an Update and no deal is deleted.
C8_SecondRunChangesNothing ==
  run = 2
    => /\ \A i \in 1..Len(actions) : actions[i].type # "update"
       /\ duplicatesToDelete = << >>

\* the fields of a surviving record that a merge decides
MergedFields(c) ==
  <<c.email, c.contact_type, c.firstname, c.lastname, c.phone, c.city, c.state>>

\* every ordering of the records of a group
Orderings(contacts) ==
  {[i \in 1..Len(contacts) |-> contacts[f[i]]] :
     f \in {g \in [1..Len(contacts) -> 1..Len(contacts)] :
              \A i, j \in 1..Len(contacts) : g[i] = g[j] => i = j}}

\* the groups that the merge loop has still to merge
Unmerged == {i \in 1..Len(groups) : i >= cidx /\ Len(groups[i].contacts) > 1}

\* C11: merging a group yields the same email, contact_type, firstname,
\* lastname, phone, city and state for every ordering of its records.
C11_MergeOrderIndependent ==
  cpc = "merge"
    => \A i \in Unmerged :
         \A p, q \in Orderings(groups[i].contacts) :
           MergedFields(mergeContactProperties(groups[i].key, p)[1])
             = MergedFields(mergeContactProperties(groups[i].key, q)[1])

\* the records of the group being merged, in the order the merge scans them
Scanned == sortByUpdatedDSC(MergedGroup)
WithBothNames == {i \in 1..Len(Scanned) :
                    truthy(Scanned[i].firstname) /\ truthy(Scanned[i].lastname)}
WithFirstName == {i \in 1..Len(Scanned) : truthy(Scanned[i].firstname)}
WithLastName == {i \in 1..Len(Scanned) : truthy(Scanned[i].lastname)}
FirstOf(indices) == CHOOSE i \in indices : \A j \in indices : i <= j

\* C12: scanning the group in descending updated order, the survivor takes
\* both names from the first record that has both; if no record has both, it
\* takes firstname from the first record with a firstname and lastname from
\* the first record with a lastname, independently; a name that no record has
\* stays null.
C12_NameRule ==
  [][Merging =>
       IF WithBothNames # {}
       THEN /\ Survivor.firstname = Scanned[FirstOf(WithBothNames)].firstname
            /\ Survivor.lastname = Scanned[FirstOf(WithBothNames)].lastname
       ELSE /\ Survivor.firstname =
                 IF WithFirstName # {}
                 THEN Scanned[FirstOf(WithFirstName)].firstname ELSE NullId
            /\ Survivor.lastname =
                 IF WithLastName # {}
                 THEN Scanned[FirstOf(WithLastName)].lastname ELSE NullId]_vars

\* a merged group whose newer record had only the lastname Smith and whose
\* older record had only the firstname Jo: the survivor is Jo Smith
C12_Witness ==
  /\ cpc = "merge"
  /\ \E i \in 1..Len(groups) :
        /\ i < cidx
        /\ Len(groups[i].contacts) > 1
        /\ groups[i].contacts[1].firstname = "Jo"
        /\ groups[i].contacts[1].lastname = "Smith"
        /\ groups[i].contacts[1].updated > groups[i].contacts[2].updated
        /\ groups[i].contacts[2].firstname = "Jo"
        /\ groups[i].contacts[2].lastname = NullId

\* the Map as the first loop of mergeDuplicateContacts builds it
Grouped == groupByEmail(<< >>, allContacts)
\* the initial contacts with alias emails whose primary email has a group
Folding == {i \in 1..Len(initialContacts) :
              /\ Len(initialContacts[i].otherEmails) > 0
              /\ mapHas(Grouped, initialContacts[i].email)}
AliasesOf(i) == Range(initialContacts[i].otherEmails)
\* the normalized records that carry one of the given emails
RecordsUnder(emails) == {k \in 1..Len(allContacts) : allContacts[k].email \in emails}
Folded == cpc \in {"merge", "done"}

Orphaned == {i \in 1..Len(initialContacts) :
               /\ Len(initialContacts[i].otherEmails) > 0
               /\ ~mapHas(Grouped, initialContacts[i].email)
               /\ \E other \in AliasesOf(i) : mapHas(Grouped, other)}

\* C14: when an initial contact has alias emails, its primary email has no
\* group and one of its aliases has a group, mergeDuplicateContacts fails on
\* its assertion and generateContacts returns no contact list.
C14_OrphanAliasFails ==
  (Orphaned # {} /\ cpc \notin {"group", "fold"})
    => (cpc = "failed" /\ finalContacts = << >>)

\* the run has failed on an initial contact whose alias has a group and
\* whose primary email has none
C14_Witness == cpc = "failed" /\ Orphaned # {} /\ Len(groups) > 0

\* in a step: the deals on which the event calls recordSeen, the diagnostics
\* it logs about a deal, and the actions it produces on a deal
Selected ==
  IF CurrentEvent.type = "refund"
  THEN Range(getDealsForRecords(World, CurrentEvent.refundedTxs))
  ELSE {resolution'.deal} \ {NoDeal}
NewLog == SubSeq(log', Len(log) + 1, Len(log'))
TwiceAbout(d) == {i \in 1..Len(NewLog) :
                    NewLog[i].message = "Updating deal twice" /\ NewLog[i].deal = d}
ActionsOn(d) == {i \in 1..Len(NewActions) : NewActions[i].deal = d}

\* C15: the handled-deals entry of a deal is set by the first event that
\* selects the deal and never changes afterwards; every later event that
\* selects the deal logs exactly one 'Updating deal twice' diagnostic, which
\* names that first event and the later one, and the later event still
\* produces its action on the deal (for a refund, unless the deal is already
\* CLOSED_LOST, for which a refund has no action).
C15_UpdatingDealTwice ==
  [][Stepped =>
       /\ DOMAIN handledDeals' = DOMAIN handledDeals \cup Selected
       /\ \A d \in DOMAIN handledDeals : handledDeals'[d] = handledDeals[d]
       /\ \A d \in Selected \ DOMAIN handledDeals :
            /\ handledDeals'[d] = CurrentEvent
            /\ TwiceAbout(d) = {}
       /\ \A d \in Selected \cap DOMAIN handledDeals :
            /\ Cardinality(TwiceAbout(d)) = 1
            /\ \A i \in TwiceAbout(d) :
                 /\ NewLog[i].firstEvent = handledDeals[d].groups
                 /\ NewLog[i].currentEvent = CurrentEvent.groups
                 /\ NewLog[i].firstEvent < NewLog[i].currentEvent
       /\ \A d \in Selected :
            IF CurrentEvent.type = "refund" /\ StageOf(d) = CLOSED_LOST
            THEN ActionsOn(d) = {}
            ELSE /\ Cardinality(ActionsOn(d)) = 1
                 /\ \A i \in ActionsOn(d) :
                      /\ NewActions[i].type \in {"update", "noop"}
                      /\ NewActions[i].groups = CurrentEvent.groups
       /\ thrown' = thrown]_vars

\* the second event selected the deal of the first: the diagnostic names
\* event 1, the entry is still event 1, and event 2 produced its action
C15_Witness ==
  /\ Len(events) = 2
  /\ \E d \in DOMAIN handledDeals :
        /\ handledDeals[d].groups = 1
        /\ \E i \in 1..Len(log) :
              /\ log[i].message = "Updating deal twice"
              /\ log[i].deal = d
              /\ log[i].firstEvent = 1
              /\ log[i].currentEvent = 2
        /\ \E i \in 1..Len(actions) :
              actions[i].groups = 2 /\ actions[i].deal = d

\* in a step: the deal an eval, purchase, renewal or upgrade event matched
Matched == resolution'.deal
AnyActive(event) == \E i \in 1..Len(event.licenses) : event.licenses[i].active

\* C16: an eval event that matches a deal in stage EVAL leaves it in EVAL if
\* some license of the event is active and in CLOSED_LOST otherwise; an eval
\* event that matches a deal in another stage leaves the stage as it is.
C16_EvalMatchStage ==
  [][(Stepped /\ CurrentEvent.type = "eval" /\ Matched # NoDeal)
       => deals'[Matched].data.dealStage =
            IF StageOf(Matched) = EVAL
            THEN (IF AnyActive(CurrentEvent) THEN EVAL ELSE CLOSED_LOST)
            ELSE StageOf(Matched)]_vars

\* one eval event without an active license has closed a matched EVAL deal
C16_Witness ==
  /\ Len(events) = 1
  /\ LastEvent.type = "eval"
  /\ ~AnyActive(LastEvent)
  /\ resolution.deal # NoDeal
  /\ deals[resolution.deal].snapshot.dealStage = EVAL
  /\ StageOf(resolution.deal) = CLOSED_LOST
  /\ LastAction.type = "update"
  /\ LastAction.properties.dealStage = CLOSED_LOST

\* the same event as a renewal if it is an upgrade, and the reverse
Twin(event) ==
  [event EXCEPT !.type = IF @ = "renewal" THEN "upgrade" ELSE "renewal"]

\* C17: a renewal or upgrade event searches by its transaction only; when a
\* deal matches, the stage of the deal is unchanged and the one action is an
\* Update or Noop on it; when none matches, the one action is a Create with
\* stage CLOSED_WON and the addon-license id and transaction id of the
\* transaction; an upgrade has the outcome of the renewal with the same
\* transaction.
C17_RenewalUpgrade ==
  [][(Stepped /\ CurrentEvent.type \in {"renewal", "upgrade"})
       => LET found == getDealsForRecords(World, <<CurrentEvent.transaction>>)
              twin == actionsFor(World, Twin(CurrentEvent))
          IN /\ resolution'.found = found
             /\ Len(NewActions) = 1
             /\ NewActions[1].groups = CurrentEvent.groups
             /\ IF found # << >>
                THEN /\ Matched \in Range(found)
                     /\ deals'[Matched].data.dealStage = StageOf(Matched)
                     /\ NewActions[1].type \in {"update", "noop"}
                     /\ NewActions[1].deal = Matched
                ELSE /\ Matched = NoDeal
                     /\ NewActions[1].type = "create"
                     /\ NewActions[1].properties.dealStage = CLOSED_WON
                     /\ NewActions[1].properties.addonLicenseId
                          = CurrentEvent.transaction.addonLicenseId
                     /\ NewActions[1].properties.transactionId
                          = CurrentEvent.transaction.transactionId
             /\ twin.actions = NewActions
             /\ twin.w.deals = deals'
             /\ twin.w.live = live'
             /\ twin.w.duplicatesToDelete = duplicatesToDelete']_vars

\* a renewal matched a deal in EVAL, which stayed in EVAL, and an upgrade
\* whose transaction matched no deal created a CLOSED_WON deal
C17_Witness ==
  /\ Len(events) = 2
  /\ Len(actions) = 2
  /\ events[1].type = "renewal"
  /\ actions[1].type \in {"update", "noop"}
  /\ actions[1].deal # NoDeal
  /\ deals[actions[1].deal].snapshot.dealStage = EVAL
  /\ StageOf(actions[1].deal) = EVAL
  /\ events[2].type = "upgrade"
  /\ actions[2].type = "create"
  /\ actions[2].properties.dealStage = CLOSED_WON
  /\ actions[2].properties.transactionId = "T2"

\* the editable properties of a deal that differ from its snapshot
Differing(deal) == {f \in EditableFields : deal.data[f] # deal.snapshot[f]}
UpdatesAndNoops == {i \in 1..Len(NewActions) : NewActions[i].type \in {"update", "noop"}}

\* C18: the action makeUpdateAction returns for a deal is a Noop iff, after
\* the stage change and the record's updates, the editable properties of the
\* deal equal its snapshot; otherwise it is an Update whose properties are
\* exactly the properties that differ from the snapshot, with their new
\* values. So a deal changed by an earlier event and changed back by a later
\* one gets a Noop from the later one.
C18_NoopIffUnchanged ==
  [][Stepped =>
       \A i \in UpdatesAndNoops :
         LET deal == deals'[NewActions[i].deal]
         IN /\ NewActions[i].type = "noop" <=> Differing(deal) = {}
            /\ NewActions[i].type = "update" =>
                 /\ DOMAIN NewActions[i].properties = Differing(deal)
                 /\ \A f \in Differing(deal) :
                      NewActions[i].properties[f] = deal.data[f]]_vars

\* the first event changed a deal and the second changed it back: an Update
\* and then a Noop on the same deal, which equals its snapshot again
C18_Witness ==
  /\ Len(events) = 2
  /\ Len(actions) = 2
  /\ actions[1].type = "update"
  /\ actions[2].type = "noop"
  /\ actions[2].deal = actions[1].deal
  /\ Differing(deals[actions[2].deal]) = {}

\* C19: the only changes of stage a run makes to an existing deal are EVAL
\* to CLOSED_LOST by an eval event without an active license, EVAL to
\* CLOSED_WON by a purchase event, and any stage to CLOSED_LOST by a refund
\* event; so a deal that is not in EVAL never enters EVAL, and a deal in
\* CLOSED_LOST stays in CLOSED_LOST.
C19_StageTransitions ==
  [][Stepped =>
       \A d \in DealIds :
         /\ deals'[d].data.dealStage # StageOf(d) =>
              \/ /\ StageOf(d) = EVAL
                 /\ deals'[d].data.dealStage = CLOSED_LOST
                 /\ CurrentEvent.type = "eval"
                 /\ ~AnyActive(CurrentEvent)
              \/ /\ StageOf(d) = EVAL
                 /\ deals'[d].data.dealStage = CLOSED_WON
                 /\ CurrentEvent.type = "purchase"
              \/ /\ deals'[d].data.dealStage = CLOSED_LOST
                 /\ CurrentEvent.type = "refund"
         /\ StageOf(d) # EVAL => deals'[d].data.dealStage # EVAL
         /\ StageOf(d) = CLOSED_LOST => deals'[d].data.dealStage = CLOSED_LOST]_vars

\* a refund closed a deal as lost and a later purchase, renewal or upgrade
\* selected the same deal, which is still CLOSED_LOST
C19_Witness ==
  /\ Len(events) = 2
  /\ events[1].type = "refund"
  /\ events[2].type \in {"purchase", "renewal", "upgrade"}
  /\ resolution.deal # NoDeal
  /\ deals[resolution.deal].snapshot.dealStage # CLOSED_LOST
  /\ StageOf(resolution.deal) = CLOSED_LOST
  /\ actions[1].type = "update"
  /\ actions[Len(actions)].deal = resolution.deal

\* C20: a deal that has activity when duplicates are resolved is never
\* removed from the live deal set and never becomes a key of
\* duplicatesToDelete; every key of duplicatesToDelete is a deal without
\* activity, and the deal a resolution keeps is not among the deals it
\* deletes, stays live and is no key of duplicatesToDelete.
C20_ActiveDealsKept ==
  [][Stepped =>
       /\ \A d \in live \ live' : ~deals[d].hasActivity
       /\ \A d \in DOMAIN duplicatesToDelete' : ~deals[d].hasActivity
       /\ \A i \in 1..Len(resolution'.toDelete) :
            /\ ~deals[resolution'.toDelete[i]].hasActivity
            /\ resolution'.toDelete[i] # resolution'.deal
       /\ \A d \in Range(resolution'.found) : deals[d].hasActivity => d \in live'
       /\ resolution'.deal # NoDeal =>
            /\ resolution'.deal \in live'
            /\ resolution'.deal \notin DOMAIN duplicatesToDelete']_vars

\* of the deals found, the first has no activity and a later one has: the
\* later one is kept and live, the first is deleted
C20_Witness ==
  /\ Len(resolution.found) > 1
  /\ ~deals[resolution.found[1]].hasActivity
  /\ resolution.found[1] \in DOMAIN duplicatesToDelete
  /\ resolution.found[1] \notin live
  /\ resolution.deal # NoDeal
  /\ deals[resolution.deal].hasActivity
  /\ resolution.deal \in live
  /\ \A d \in DOMAIN duplicatesToDelete : ~deals[d].hasActivity

\* C21: a refund event resolves no duplicates: it leaves the live deal set
\* and duplicatesToDelete as they are, however many deals match; an event
\* that creates a deal registers nothing; the live deal set never grows; and
\* no action references a deal that has been marked for deletion.
C21_RefundResolvesNothing ==
  [][Stepped =>
       /\ CurrentEvent.type = "refund" =>
            /\ live' = live
            /\ duplicatesToDelete' = duplicatesToDelete
            /\ resolution' = NoResolution
       /\ (\E i \in 1..Len(NewActions) : NewActions[i].type = "create") =>
            /\ live' = live
            /\ deals' = deals
            /\ handledDeals' = handledDeals
            /\ duplicatesToDelete' = duplicatesToDelete
       /\ live' \subseteq live
       /\ \A i \in 1..Len(NewActions) :
            /\ NewActions[i].deal \notin DOMAIN duplicatesToDelete'
            /\ NewActions[i].deal # NoDeal => NewActions[i].deal \in live']_vars

\* the first event marked a deal for deletion; the refund after it matched
\* the two other deals, closed both and removed neither
C21_Witness ==
  /\ Len(events) = 2
  /\ events[2].type = "refund"
  /\ Cardinality(DOMAIN duplicatesToDelete) = 1
  /\ live = DealIds \ DOMAIN duplicatesToDelete
  /\ Cardinality({i \in 1..Len(actions) : actions[i].groups = 2}) = 2
  /\ \A i \in 1..Len(actions) :
       actions[i].groups = 2 => actions[i].deal \in live

====
